---- MODULE Spec2Model ----
(***************************************************************************)
(* Model of the qariee CLI bulk-transfer path: the upload-audio command    *)
(* (commands/upload_audio.py), the retrying downloader (utils/download.py) *)
(* and the wrangler uploader (utils/r2.py).                                *)
(*                                                                         *)
(* One behaviour is one invocation of upload_audio.  The command's         *)
(* arguments and the environment it starts in (catalog, wrangler on PATH,  *)
(* the operator's answer to the confirmation prompt) are drawn in Init;    *)
(* the responses of the audio server, of wrangler and of the file system   *)
(* are drawn with \E at the step that consumes them.                       *)
(*                                                                         *)
(* The second part models the verify command (commands/verify.py): the     *)
(* existence probe check_url, the two thread-pool scans (images, audio)    *)
(* and the report.  It has its own specification, ScanSpec, in which the   *)
(* variables of upload_audio are idle, as those of verify are in Spec.     *)
(*                                                                         *)
(* RerunSpec is upload_audio invoked twice in a row with the same          *)
(* arguments against a server and a bucket that answer the same way both   *)
(* times.  CatalogSpec is a sequence of add_reciter calls on the catalog   *)
(* document (utils/db_json.py).                                            *)
(***************************************************************************)
EXTENDS Integers, Sequences, FiniteSets, TLC

\* ------------------------------------------------------------- constants

\* utils/download.py: MAX_RETRIES, RETRY_DELAY (seconds)
MAX_RETRIES == 3
RETRY_DELAY == 2
\* commands/upload_audio.py: TOTAL_SURAHS, and the literal 114 of the range check
TOTAL_SURAHS == 114

\* ---------------------------------------------------------------- bounds

\* largest number of items (end - start + 1) of a run that is explored
MaxItems == 2
\* number of chunks of a response body (iter_bytes yields BodyLen chunks)
BodyLen == 2

\* ids the command may be called with; the catalog below knows only "a"
ReciterIds == {"a", "b"}

\* --------------------------------------------------------------- state

VARIABLES
    \* arguments and environment of the invocation
    reciter_id, start, end, dry_run,
    db,                 \* the catalog document db.json
    wrangler,           \* shutil.which("wrangler") is not None
    confirm_ans,        \* the operator's answer to "Continue anyway?"
    \* control
    pc,                 \* position in upload_audio
    raised,             \* an exception is propagating out of the loop
    exit_code,          \* process exit status, -1 while running
    \* upload_audio locals
    temp_dir,           \* "none" | "exists" | "removed" | "leftover" (removal failed)
    next_surah,         \* next value the range(start, end + 1) iterator yields
    surah_num,
    success_count, fail_count, skipped_count,
    \* download_file locals of the call in progress / last returned
    \* (reset once the caller has consumed the returned value)
    attempt,            \* loop variable of download_file
    dl_ret,             \* "none" | "true" | "false": value download_file returned
    outcomes,           \* what each attempt of this call met, in order
    slept,              \* seconds slept by time.sleep in this call
    \* the world
    files,              \* staging directory: file name -> chunks written
    store,              \* R2 bucket: remote path -> object body
    \* observation
    calls,              \* counters of I/O performed by the run
    attempted,          \* surah numbers the loop body was entered for
    classified,         \* <<surah, outcome>> per counted item
    forwarded           \* the latest invocation of upload_to_r2: the item, the
                        \* staged file it was given and the attempts before it

\* state of the verify command
VARIABLES
    max_workers,        \* --concurrent
    vpc,                \* position in verify
    futures,            \* the futures of the scan in progress, in submission
                        \* order: the key, the task's state and its result
    image_results,      \* list of (reciter_id, exists, status_code)
    audio_results,      \* reciter_id -> [present count, missing surahs]
    progress,           \* progress.advance calls per task
    missing_images,
    report,             \* rows of the audio table: (reciter_id, present, missing)
    total_missing,
    v_exit              \* exit status of verify, -1 while running

transfer_vars == <<reciter_id, start, end, dry_run, db, wrangler, confirm_ans,
          pc, raised, exit_code, temp_dir, next_surah, surah_num,
          success_count, fail_count, skipped_count,
          attempt, dl_ret, outcomes, slept,
          files, store, calls, attempted, classified, forwarded>>

scan_vars == <<max_workers, vpc, futures, image_results, audio_results,
               progress, missing_images, report, total_missing, v_exit>>

\* two invocations of upload_audio in a row
VARIABLES
    run,                \* 1 or 2: which invocation is running
    plan,               \* what the audio server and wrangler answer for each
                        \* surah, the same in both invocations
    first               \* what the first invocation left: store, counters,
                        \* exit status

\* calls of add_reciter on the catalog document
VARIABLES
    db0,                \* the document before the first call
    adds,               \* calls that returned normally
    last_add            \* the latest call: its argument, the document and
                        \* the write count it found, and how it ended

rerun_vars == <<run, plan, first>>
catalog_vars == <<db0, adds, last_add>>
other_vars == <<rerun_vars, catalog_vars>>

vars == <<transfer_vars, scan_vars, rerun_vars, catalog_vars>>

args == <<reciter_id, start, end, dry_run, db, wrangler, confirm_ans>>
dl_vars == <<attempt, dl_ret, outcomes, slept>>
counts == <<success_count, fail_count, skipped_count>>

\* ------------------------------------------------------------- helpers

Empty == [x \in {} |-> <<>>]
Put(f, k, v) == [x \in (DOMAIN f) \cup {k} |-> IF x = k THEN v ELSE f[x]]
Del(f, k) == [x \in (DOMAIN f) \ {k} |-> f[x]]
Restrict(f, S) == [x \in S |-> f[x]]

\* f"{surah_num:03d}" for 0 <= n <= 999, as its three decimal digits
surah_str(n) == <<n \div 100, (n \div 10) % 10, n % 10>>

\* local_file = temp_dir / f"{surah_str}.mp3"
local_file(n) == surah_str(n)

\* remote_path = f"audio/{reciter_id}/{surah_str}.mp3"
remote_path(rid, n) == <<rid, surah_str(n)>>

\* the body the server sends for surah n on attempt a, chunk by chunk
Body(n, a) == [i \in 1..BodyLen |-> <<n, a, i>>]
Prefix(s, k) == SubSeq(s, 1, k)

Last(seq) == seq[Len(seq)]

\* Python's None, and Some(x) for a value that is not None
None == <<>>
Some(x) == <<x>>

\* get_reciter: first reciter of data["reciters"] with the id, else None
get_reciter(data, rid) ==
    IF \E i \in 1..Len(data.reciters) : data.reciters[i].id = rid
    THEN LET i == CHOOSE j \in 1..Len(data.reciters) :
                    /\ data.reciters[j].id = rid
                    /\ \A m \in 1..(j - 1) : data.reciters[m].id # rid
         IN  Some(data.reciters[i])
    ELSE None

\* range(start, end + 1) with the stop value end
range_stop_Exclusive(e) == e

\* the stop value of range(start, end + 1)
range_stop(e) == e + 1

\* an exception leaving the loop body with the finally clause missing
Unwind_NoFinally == "exit"

\* where an exception raised in the loop body goes: the try block has a
\* finally clause, which runs before the exception leaves the command
Unwind == "finally"

\* the range check of upload_audio
ValidRange(s, e) ==
    /\ 1 <= s /\ s <= TOTAL_SURAHS
    /\ 1 <= e /\ e <= TOTAL_SURAHS
    /\ s <= e

\* --------------------------------------------------------- download_file

\* What one attempt can meet:
\*   ok          2xx, body streamed to the end
\*   not_found   status 404
\*   http_error  another error status: raise_for_status raises HTTPStatusError
\*   net_error   connect/read error or timeout before a response (httpx.HTTPError)
\*   body_error  httpx error or timeout raised by iter_bytes after some chunks
\*   os_error    OSError from open/write (not an httpx error, not caught)
Transient == {"http_error", "net_error", "body_error"}
AttemptKinds == {"ok", "not_found", "os_error"} \cup Transient

\* AttemptStep with the 404 test left out: raise_for_status raises for 404
AttemptStep_NotFoundRetried(kind, att) ==
    IF kind = "ok" THEN "return_true"
    ELSE IF kind \in Transient \cup {"not_found"}
         THEN IF att < MAX_RETRIES THEN "retry" ELSE "return_false"
         ELSE "raise"

\* AttemptStep giving up one attempt early
AttemptStep_GivesUpEarly(kind, att) ==
    IF kind = "not_found" THEN "return_false"
    ELSE IF kind = "ok" THEN "return_true"
    ELSE IF kind \in Transient
         THEN IF att < MAX_RETRIES - 1 THEN "retry" ELSE "return_false"
         ELSE "raise"

\* AttemptStep with "attempt <= MAX_RETRIES": sleeps after the last attempt too
AttemptStep_SleepsAfterLast(kind, att) ==
    IF kind = "not_found" THEN "return_false"
    ELSE IF kind = "ok" THEN "return_true"
    ELSE IF kind \in Transient
         THEN IF att <= MAX_RETRIES THEN "retry" ELSE "return_false"
         ELSE "raise"

\* AttemptStep reporting success once the attempts are used up
AttemptStep_ExhaustedIsSuccess(kind, att) ==
    IF kind = "not_found" THEN "return_false"
    ELSE IF kind = "ok" THEN "return_true"
    ELSE IF kind \in Transient
         THEN IF att < MAX_RETRIES THEN "retry" ELSE "return_true"
         ELSE "raise"

\* what the body of the for loop of download_file does with an attempt:
\* return, raise, or sleep and go on to the next value of the range
AttemptStep(kind, att) ==
    IF kind = "not_found" THEN "return_false"
    ELSE IF kind = "ok" THEN "return_true"
    ELSE IF kind \in Transient
         THEN IF att < MAX_RETRIES THEN "retry" ELSE "return_false"
         ELSE "raise"

\* FileAfter with the file opened in append mode ("ab")
FileAfter_Append(fs, n, att, kind, k) ==
    LET name == local_file(n)
        old == IF name \in DOMAIN fs THEN fs[name] ELSE <<>>
    IN  IF kind \in {"not_found", "http_error", "net_error"} THEN fs
        ELSE IF kind = "ok" THEN Put(fs, name, old \o Body(n, att))
        ELSE Put(fs, name, old \o Prefix(Body(n, att), k))

\* the staged file after an attempt that wrote k chunks of Body(n, att):
\* open(dest, "wb") truncates, and happens only once the status was accepted
FileAfter(fs, n, att, kind, k) ==
    IF kind \in {"not_found", "http_error", "net_error"} THEN fs
    ELSE IF kind = "ok" THEN Put(fs, local_file(n), Body(n, att))
    ELSE Put(fs, local_file(n), Prefix(Body(n, att), k))

\* chunks an attempt of this kind can have written when it ends
WrittenChoices(kind) ==
    IF kind \in {"body_error", "os_error"} THEN 0..(BodyLen - 1)
    ELSE IF kind = "ok" THEN {BodyLen} ELSE {0}

\* ------------------------------------------------------------- actions

\* there is no second invocation of upload_audio
RerunIdle ==
    /\ run = 1
    /\ plan = <<>>
    /\ first = <<>>

\* add_reciter is not called
CatalogIdle ==
    /\ db0 = <<>>
    /\ adds = 0
    /\ last_add = <<>>

\* verify is not running
ScanIdle ==
    /\ max_workers = 0
    /\ vpc = "idle"
    /\ futures = <<>>
    /\ image_results = <<>>
    /\ audio_results = Empty
    /\ progress = [Images |-> 0, Audio |-> 0]
    /\ missing_images = 0
    /\ report = <<>>
    /\ total_missing = 0
    /\ v_exit = -1

Init ==
    /\ reciter_id \in ReciterIds
    /\ start \in {0, 1, TOTAL_SURAHS}
    /\ end \in (start - 1)..(start + MaxItems - 1)
    /\ dry_run \in BOOLEAN
    /\ db = [version |-> <<1, 0, 0>>, reciters |-> <<[id |-> "a"]>>]
    /\ wrangler \in BOOLEAN
    \* the prompt is only shown, and answered, for an unknown reciter
    /\ confirm_ans \in (IF get_reciter(db, reciter_id) = None
                        THEN BOOLEAN ELSE {FALSE})
    /\ pc = "reciter"
    /\ raised = FALSE
    /\ exit_code = -1
    /\ temp_dir = "none"
    /\ next_surah = 0
    /\ surah_num = 0
    /\ success_count = 0 /\ fail_count = 0 /\ skipped_count = 0
    /\ attempt = 0 /\ dl_ret = "none" /\ outcomes = <<>> /\ slept = 0
    /\ files = Empty
    /\ store = Empty
    /\ calls = [catalog_read |-> 0, prompt |-> 0, tool_check |-> 0,
                fetch |-> 0, forward |-> 0, mkdtemp |-> 0, rmtree |-> 0,
                catalog_write |-> 0]
    /\ attempted = <<>>
    /\ classified = <<>>
    /\ forwarded = <<>>
    /\ ScanIdle
    /\ RerunIdle
    /\ CatalogIdle

\* raise typer.Exit(1) during setup
Abort ==
    /\ pc' = "exit"
    /\ exit_code' = 1

\* an exception is raised inside the try block
Raise ==
    /\ raised' = TRUE
    /\ pc' = Unwind
    /\ exit_code' = IF Unwind = "exit" THEN 1 ELSE exit_code

\* "Validate reciter exists": get_reciter, and the prompt when it is None
CheckReciter ==
    /\ pc = "reciter"
    /\ IF get_reciter(db, reciter_id) = None
       THEN /\ calls' = [calls EXCEPT !.catalog_read = @ + 1, !.prompt = @ + 1]
            /\ IF confirm_ans
               THEN pc' = "range" /\ UNCHANGED exit_code
               ELSE Abort
       ELSE /\ calls' = [calls EXCEPT !.catalog_read = @ + 1]
            /\ pc' = "range" /\ UNCHANGED exit_code
    /\ UNCHANGED <<args, raised, temp_dir, next_surah, surah_num, counts,
                   dl_vars, files, store, attempted, classified, forwarded>>
    /\ UNCHANGED scan_vars
    /\ UNCHANGED other_vars

\* "Validate surah range"
ValidateRange ==
    /\ pc = "range"
    /\ IF ValidRange(start, end)
       THEN pc' = "wrangler" /\ UNCHANGED exit_code
       ELSE Abort
    /\ UNCHANGED <<args, raised, temp_dir, next_surah, surah_num, counts,
                   dl_vars, files, store, calls, attempted, classified,
                   forwarded>>
    /\ UNCHANGED scan_vars
    /\ UNCHANGED other_vars

\* the wrangler check with its "raise typer.Exit(1)" left out
CheckWrangler_NeverAborts ==
    /\ pc = "wrangler"
    /\ IF dry_run
       THEN UNCHANGED calls
       ELSE calls' = [calls EXCEPT !.tool_check = @ + 1]
    /\ pc' = "mktemp"
    /\ UNCHANGED <<args, raised, exit_code, temp_dir, next_surah, surah_num,
                   counts, dl_vars, files, store, attempted, classified,
                   forwarded>>
    /\ UNCHANGED scan_vars
    /\ UNCHANGED other_vars

\* "Check wrangler": not dry_run and not check_wrangler_installed()
CheckWrangler ==
    /\ pc = "wrangler"
    /\ IF dry_run
       THEN pc' = "mktemp" /\ UNCHANGED <<exit_code, calls>>
       ELSE /\ calls' = [calls EXCEPT !.tool_check = @ + 1]
            /\ IF wrangler
               THEN pc' = "mktemp" /\ UNCHANGED exit_code
               ELSE Abort
    /\ UNCHANGED <<args, raised, temp_dir, next_surah, surah_num, counts,
                   dl_vars, files, store, attempted, classified, forwarded>>
    /\ UNCHANGED scan_vars
    /\ UNCHANGED other_vars

\* temp_dir = create_temp_dir(); the three counters are set to 0; the
\* try block is entered and the range iterator created
CreateTempDir ==
    /\ pc = "mktemp"
    /\ temp_dir' = "exists"
    /\ calls' = [calls EXCEPT !.mkdtemp = @ + 1]
    /\ success_count' = 0 /\ fail_count' = 0 /\ skipped_count' = 0
    /\ next_surah' = start
    /\ pc' = "loop"
    /\ UNCHANGED <<args, raised, exit_code, surah_num, dl_vars, files, store,
                   attempted, classified, forwarded>>
    /\ UNCHANGED scan_vars
    /\ UNCHANGED other_vars

\* the head of "for surah_num in range(start, end + 1)" when the range is
\* exhausted: the try block is left normally
LoopExit ==
    /\ pc = "loop"
    /\ next_surah >= range_stop(end)
    /\ pc' = "finally"
    /\ UNCHANGED <<args, raised, exit_code, temp_dir, next_surah, surah_num,
                   counts, dl_vars, files, store, calls, attempted,
                   classified, forwarded>>
    /\ UNCHANGED scan_vars
    /\ UNCHANGED other_vars

\* one whole iteration in dry-run mode
DryRunItem ==
    /\ pc = "loop"
    /\ next_surah < range_stop(end)
    /\ dry_run
    /\ surah_num' = next_surah
    /\ next_surah' = next_surah + 1
    /\ attempted' = Append(attempted, next_surah)
    /\ success_count' = success_count + 1
    /\ classified' = Append(classified, <<next_surah, "success">>)
    /\ UNCHANGED <<args, pc, raised, exit_code, temp_dir, fail_count,
                   skipped_count, dl_vars, files, store, calls, forwarded>>
    /\ UNCHANGED scan_vars
    /\ UNCHANGED other_vars

\* a live iteration begins: download_file(source_url, local_file) is called
StartItem ==
    /\ pc = "loop"
    /\ next_surah < range_stop(end)
    /\ ~dry_run
    /\ surah_num' = next_surah
    /\ next_surah' = next_surah + 1
    /\ attempted' = Append(attempted, next_surah)
    /\ attempt' = 1 /\ dl_ret' = "none" /\ outcomes' = <<>> /\ slept' = 0
    /\ pc' = "download"
    /\ UNCHANGED <<args, raised, exit_code, temp_dir, counts, files, store,
                   calls, classified, forwarded>>
    /\ UNCHANGED scan_vars
    /\ UNCHANGED other_vars

\* one pass of the for loop of download_file
Attempt ==
    /\ pc = "download"
    /\ \E kind \in AttemptKinds : \E k \in WrittenChoices(kind) :
        LET step == AttemptStep(kind, attempt) IN
        /\ outcomes' = Append(outcomes, kind)
        /\ calls' = [calls EXCEPT !.fetch = @ + 1]
        /\ files' = FileAfter(files, surah_num, attempt, kind, k)
        /\ CASE step = "retry" /\ attempt < MAX_RETRIES ->
                  /\ slept' = slept + RETRY_DELAY
                  /\ attempt' = attempt + 1
                  /\ UNCHANGED <<pc, dl_ret, raised, exit_code>>
             [] step = "retry" /\ attempt >= MAX_RETRIES ->
                  \* the range is exhausted: the "return False" after the loop
                  /\ slept' = slept + RETRY_DELAY
                  /\ dl_ret' = "false"
                  /\ pc' = "returned"
                  /\ UNCHANGED <<attempt, raised, exit_code>>
             [] step = "return_true" ->
                  /\ dl_ret' = "true"
                  /\ pc' = "returned"
                  /\ UNCHANGED <<slept, attempt, raised, exit_code>>
             [] step = "return_false" ->
                  /\ dl_ret' = "false"
                  /\ pc' = "returned"
                  /\ UNCHANGED <<slept, attempt, raised, exit_code>>
             [] OTHER ->
                  /\ Raise
                  /\ UNCHANGED <<slept, attempt, dl_ret>>
    /\ UNCHANGED <<args, temp_dir, next_surah, surah_num, counts,
                   store, attempted, classified, forwarded>>
    /\ UNCHANGED scan_vars
    /\ UNCHANGED other_vars

\* the value download_file returned has been consumed by the if statement
DropFrame == attempt' = 0 /\ dl_ret' = "none" /\ outcomes' = <<>> /\ slept' = 0

\* the else branch of "if download_file(...)": "Download failed (404?)"
DownloadFailed ==
    /\ pc = "returned"
    /\ dl_ret = "false"
    /\ fail_count' = fail_count + 1
    /\ classified' = Append(classified, <<surah_num, "download_failed">>)
    /\ pc' = "loop"
    /\ DropFrame
    /\ UNCHANGED <<args, raised, exit_code, temp_dir, next_surah, surah_num,
                   success_count, skipped_count, files, store, calls,
                   attempted, forwarded>>
    /\ UNCHANGED scan_vars
    /\ UNCHANGED other_vars

\* what a call of upload_to_r2 can meet:
\*   rc_zero     wrangler ran and returned 0: the object is stored
\*   rc_nonzero  wrangler ran and returned another code
\*   sub_error   subprocess.SubprocessError (caught, False)
\*   os_error    OSError from subprocess.run (not a SubprocessError, not caught)
UploadKinds == {"rc_zero", "rc_nonzero", "sub_error", "os_error"}

\* upload_to_r2 against a store that refuses to replace an object
upload_to_r2_NoOverwrite(installed, kind) ==
    IF ~installed THEN "false"
    ELSE IF remote_path(reciter_id, surah_num) \in DOMAIN store THEN "false"
    ELSE IF kind = "rc_zero" THEN "true"
    ELSE IF kind \in {"rc_nonzero", "sub_error"} THEN "false"
    ELSE "raise"

\* upload_to_r2(local_path, remote_path) -> "true" | "false" | "raise"
upload_to_r2(installed, kind) ==
    IF ~installed THEN "false"
    ELSE IF kind = "rc_zero" THEN "true"
    ELSE IF kind \in {"rc_nonzero", "sub_error"} THEN "false"
    ELSE "raise"

\* the then branch of "if download_file(...)": upload, count, unlink
Forward ==
    /\ pc = "returned"
    /\ dl_ret = "true"
    /\ \E kind \in UploadKinds :
        LET r == upload_to_r2(wrangler, kind)
            name == local_file(surah_num)
            staged == IF name \in DOMAIN files THEN files[name] ELSE <<"absent">>
        IN
        /\ calls' = [calls EXCEPT !.tool_check = @ + 1,
                                  !.forward = @ + (IF wrangler THEN 1 ELSE 0)]
        /\ forwarded' = <<[n |-> surah_num, att |-> attempt, prior |-> outcomes,
                           body |-> staged]>>
        /\ store' = IF r = "true"
                    THEN Put(store, remote_path(reciter_id, surah_num), staged)
                    ELSE store
        /\ CASE r = "true" ->
                  /\ success_count' = success_count + 1
                  /\ classified' = Append(classified, <<surah_num, "success">>)
                  /\ files' = Del(files, name)
                  /\ pc' = "loop"
                  /\ UNCHANGED <<fail_count, raised, exit_code>>
             [] r = "false" ->
                  /\ fail_count' = fail_count + 1
                  /\ classified' = Append(classified, <<surah_num, "upload_failed">>)
                  /\ files' = Del(files, name)
                  /\ pc' = "loop"
                  /\ UNCHANGED <<success_count, raised, exit_code>>
             [] OTHER ->
                  /\ Raise
                  /\ UNCHANGED <<success_count, fail_count, classified, files>>
    /\ DropFrame
    /\ UNCHANGED <<args, temp_dir, next_surah, surah_num,
                   skipped_count, attempted>>
    /\ UNCHANGED scan_vars
    /\ UNCHANGED other_vars

\* finally: shutil.rmtree(temp_dir, ignore_errors=True).  When the removal
\* meets an error the error is swallowed and whatever was not yet removed
\* stays; afterwards the exception in flight, if any, leaves the command
Finally ==
    /\ pc = "finally"
    /\ calls' = [calls EXCEPT !.rmtree = @ + 1]
    /\ \E ok \in BOOLEAN :
        IF ok
        THEN temp_dir' = "removed" /\ files' = Empty
        ELSE /\ temp_dir' = "leftover"
             /\ \E keep \in SUBSET (DOMAIN files) : files' = Restrict(files, keep)
    /\ IF raised
       THEN pc' = "exit" /\ exit_code' = 1
       ELSE pc' = "summary" /\ UNCHANGED exit_code
    /\ UNCHANGED <<args, raised, next_surah, surah_num, counts, dl_vars, store,
                   attempted, classified, forwarded>>
    /\ UNCHANGED scan_vars
    /\ UNCHANGED other_vars

\* "Summary": print the counts; raise typer.Exit(1) if fail_count > 0
Summary ==
    /\ pc = "summary"
    /\ exit_code' = IF fail_count > 0 THEN 1 ELSE 0
    /\ pc' = "exit"
    /\ UNCHANGED <<args, raised, temp_dir, next_surah, surah_num, counts,
                   dl_vars, files, store, calls, attempted, classified,
                   forwarded>>
    /\ UNCHANGED scan_vars
    /\ UNCHANGED other_vars

Next ==
    \/ CheckReciter
    \/ ValidateRange
    \/ CheckWrangler
    \/ CreateTempDir
    \/ LoopExit
    \/ DryRunItem
    \/ StartItem
    \/ Attempt
    \/ DownloadFailed
    \/ Forward
    \/ Finally
    \/ Summary

Spec == Init /\ [][Next]_vars

\* every step of the command is taken eventually: the process is scheduled
\* and every blocking call carries a timeout
FairSpec == Spec /\ WF_vars(Next)

\* ================================================================ verify

\* the scan of the model probes surahs 1..ScanSurahs of every reciter; the
\* code's range(1, 115) probes 1..TOTAL_SURAHS
ScanSurahs == 2
\* largest --concurrent value explored
MaxWorkers == 2
\* largest number of probes of one run of verify that do not answer 200
MaxBad == 2

\* catalogs verify is run on: none, one and two reciters, ids distinct
Catalogs == {<<>>, <<[id |-> "a"]>>, <<[id |-> "a"], [id |-> "b"]>>}

\* what requests.head can meet:
\*   a response with a status code (redirects followed)
\*   a requests.RequestException (connection error, timeout, ...)
\*   another exception (e.g. urllib3's ValueError for --timeout 0)
StatusResponses(codes) == [kind : {"status"}, code : codes]
Failures == {[kind |-> "request_exception", code |-> 0],
             [kind |-> "fault", code |-> 0]}
\* the answers the CDN gives during a scan: present, not found, or a failure.
\* The audio loop reads only `exists` ("exists, _ = future.result()"), so
\* there a network error and a 404 are one answer
ImageResponses == StatusResponses({200, 404}) \cup Failures
AudioResponses == StatusResponses({200, 404}) \cup {[kind |-> "fault", code |-> 0]}
ScanResponses(key) == IF key.n = 0 THEN ImageResponses ELSE AudioResponses
\* every answer a single probe is checked against: any status code
AllResponses == StatusResponses(100..599) \cup Failures
NoResponse == [kind |-> "none", code |-> 0]

\* what a call leaves in its future: a returned (exists, status_code), or
\* the exception it raised
Returned(e, c) == [kind |-> "return", exists |-> e, status_code |-> c]
Raised == [kind |-> "raise", exists |-> FALSE, status_code |-> None]
NoResult == [kind |-> "none", exists |-> FALSE, status_code |-> None]

\* check_url taking every 2xx status as present
check_url_Any2xx(resp) ==
    IF resp.kind = "status"
    THEN Returned(resp.code >= 200 /\ resp.code < 300, Some(resp.code))
    ELSE IF resp.kind = "request_exception" THEN Returned(FALSE, None)
    ELSE Raised

\* check_url(url, timeout)
check_url(resp) ==
    IF resp.kind = "status" THEN Returned(resp.code = 200, Some(resp.code))
    ELSE IF resp.kind = "request_exception" THEN Returned(FALSE, None)
    ELSE Raised

\* the key of a probe: the reciter and the surah; n = 0 is the image probe
Key(rid, n) == [rid |-> rid, n |-> n]

\* the keys of the image scan, in submission order
ImageKeys(reciters) == [i \in 1..Len(reciters) |-> Key(reciters[i].id, 0)]

\* the audio keys with the last surah left out of the range
AudioKeys_SkipsLast(reciters) ==
    [j \in 1..(Len(reciters) * (ScanSurahs - 1)) |->
        Key(reciters[((j - 1) \div (ScanSurahs - 1)) + 1].id,
            ((j - 1) % (ScanSurahs - 1)) + 1)]

\* the keys of the audio scan, in submission order: reciter by reciter,
\* surahs ascending
AudioKeys(reciters) ==
    [j \in 1..(Len(reciters) * ScanSurahs) |->
        Key(reciters[((j - 1) \div ScanSurahs) + 1].id,
            ((j - 1) % ScanSurahs) + 1)]

\* executor.submit for every key: the tasks are queued
Submitted(keys) ==
    [j \in 1..Len(keys) |->
        [key |-> keys[j], st |-> "queued", resp |-> NoResponse, res |-> NoResult]]

InState(fs, st) == {j \in 1..Len(fs) : fs[j].st = st}
Bad(fs) == {j \in 1..Len(fs) : fs[j].res.kind = "raise"
                                  \/ (fs[j].res.kind = "return" /\ ~fs[j].res.exists)}

\* as_completed has yielded future j and the loop body has read its result
Consume(fs, j) ==
    [fs EXCEPT ![j].st = "consumed"]

\* a pool that starts a thread for every submitted task
CanStart_Unbounded(fs, w) == TRUE

\* ThreadPoolExecutor(max_workers=w): a task is taken up only by one of
\* at most w worker threads, each running one task at a time
CanStart(fs, w) == Cardinality(InState(fs, "running")) < w

\* the body of the image as_completed loop for one completed future
ImageRecord(results, rid, res) ==
    IF res.kind = "return"
    THEN Append(results, <<rid, res.exists, res.status_code>>)
    ELSE Append(results, <<rid, FALSE, None>>)

\* the audio loop body assigning the missing list instead of appending
AudioRecord_Overwrite(results, rid, n, res) ==
    LET cur == IF rid \in DOMAIN results THEN results[rid]
               ELSE [present |-> 0, missing |-> <<>>]
    IN  IF res.kind = "return" /\ res.exists
        THEN Put(results, rid, [cur EXCEPT !.present = @ + 1])
        ELSE Put(results, rid, [cur EXCEPT !.missing = <<n>>])

\* the audio loop body without the except branch's append: a future that
\* raised leaves no trace
AudioRecord_FaultDropped(results, rid, n, res) ==
    LET cur == IF rid \in DOMAIN results THEN results[rid]
               ELSE [present |-> 0, missing |-> <<>>]
    IN  IF res.kind = "raise" THEN Put(results, rid, cur)
        ELSE IF res.exists
        THEN Put(results, rid, [cur EXCEPT !.present = @ + 1])
        ELSE Put(results, rid, [cur EXCEPT !.missing = Append(@, n)])

\* the body of the audio as_completed loop for one completed future
AudioRecord(results, rid, n, res) ==
    LET cur == IF rid \in DOMAIN results THEN results[rid]
               ELSE [present |-> 0, missing |-> <<>>]
    IN  IF res.kind = "return" /\ res.exists
        THEN Put(results, rid, [cur EXCEPT !.present = @ + 1])
        ELSE Put(results, rid, [cur EXCEPT !.missing = Append(@, n)])

\* missing_images counting only the rows that carry a status code
CountMissingImages_WithStatus(results) ==
    Cardinality({i \in 1..Len(results) :
                    ~results[i][2] /\ results[i][3] # None})

\* missing_images: the rows of image_results whose exists is False
CountMissingImages(results) ==
    Cardinality({i \in 1..Len(results) : ~results[i][2]})

\* the audio table taking a reciter without recorded results as complete
AudioRows_DefaultComplete(reciters, results) ==
    [i \in 1..Len(reciters) |->
        LET rid == reciters[i].id IN
        IF rid \in DOMAIN results
        THEN [id |-> rid, present |-> results[rid].present,
              missing |-> results[rid].missing]
        ELSE [id |-> rid, present |-> ScanSurahs, missing |-> <<>>]]

\* the rows of the audio table: the recorded pair, or 0 and all surahs for
\* a reciter without any recorded result
AudioRows(reciters, results) ==
    [i \in 1..Len(reciters) |->
        LET rid == reciters[i].id IN
        IF rid \in DOMAIN results
        THEN [id |-> rid, present |-> results[rid].present,
              missing |-> results[rid].missing]
        ELSE [id |-> rid, present |-> 0,
              missing |-> [n \in 1..ScanSurahs |-> n]]]

RECURSIVE SumMissing(_, _)
SumMissing(rows, i) ==
    IF i = 0 THEN 0 ELSE Len(rows[i].missing) + SumMissing(rows, i - 1)

\* probes of the run that did not answer 200: those waiting in a future
\* and those already recorded
BadSoFar(fs, images, audio) ==
    Cardinality(Bad(fs) \ InState(fs, "consumed")) + CountMissingImages(images)
    + Cardinality({<<rid, i>> \in UNION {{rid} \X (1..Len(audio[rid].missing)) :
                                            rid \in DOMAIN audio} : TRUE})

\* the exit status of verify: typer.Exit(1) when total_missing > 0
VerifyExit(missing_img, total) == IF total > 0 THEN 1 ELSE 0

\* upload_audio is not running
TransferIdle ==
    /\ reciter_id = "a" /\ start = 1 /\ end = 1 /\ dry_run = FALSE
    /\ wrangler = FALSE /\ confirm_ans = FALSE
    /\ pc = "idle" /\ raised = FALSE /\ exit_code = -1
    /\ temp_dir = "none" /\ next_surah = 0 /\ surah_num = 0
    /\ success_count = 0 /\ fail_count = 0 /\ skipped_count = 0
    /\ attempt = 0 /\ dl_ret = "none" /\ outcomes = <<>> /\ slept = 0
    /\ files = Empty /\ store = Empty
    /\ calls = [catalog_read |-> 0, prompt |-> 0, tool_check |-> 0,
                fetch |-> 0, forward |-> 0, mkdtemp |-> 0, rmtree |-> 0,
                catalog_write |-> 0]
    /\ attempted = <<>> /\ classified = <<>> /\ forwarded = <<>>

ScanInit ==
    /\ TransferIdle
    /\ db \in [version : {<<1, 0, 0>>}, reciters : Catalogs]
    /\ max_workers \in {1, MaxWorkers}
    /\ vpc = "start"
    /\ futures = <<>>
    /\ image_results = <<>>
    /\ audio_results = Empty
    /\ progress = [Images |-> 0, Audio |-> 0]
    /\ missing_images = 0
    /\ report = <<>>
    /\ total_missing = 0
    /\ v_exit = -1
    /\ RerunIdle
    /\ CatalogIdle

\* read_db_json; "No reciters found" returns at once; else the image
\* futures are submitted
ReadCatalog ==
    /\ vpc = "start"
    /\ IF db.reciters = <<>>
       THEN /\ vpc' = "done"
            /\ v_exit' = 0
            /\ UNCHANGED futures
       ELSE /\ vpc' = "images"
            /\ futures' = Submitted(ImageKeys(db.reciters))
            /\ UNCHANGED v_exit
    /\ UNCHANGED <<max_workers, image_results, audio_results, progress,
                   missing_images, report, total_missing>>
    /\ UNCHANGED transfer_vars
    /\ UNCHANGED other_vars

\* a worker thread takes the oldest queued task and calls check_url
StartProbe ==
    /\ vpc \in {"images", "audio"}
    /\ InState(futures, "queued") # {}
    /\ CanStart(futures, max_workers)
    /\ LET j == CHOOSE m \in InState(futures, "queued") :
                    \A q \in InState(futures, "queued") : m <= q
       IN  futures' = [futures EXCEPT ![j].st = "running"]
    /\ UNCHANGED <<max_workers, vpc, image_results, audio_results, progress,
                   missing_images, report, total_missing, v_exit>>
    /\ UNCHANGED transfer_vars
    /\ UNCHANGED other_vars

\* a running check_url call ends: its future holds what it returned or raised
FinishProbe ==
    /\ vpc \in {"images", "audio"}
    /\ \E j \in InState(futures, "running") : \E resp \in ScanResponses(futures[j].key) :
        LET res == check_url(resp)
            fs == [futures EXCEPT ![j].st = "done", ![j].resp = resp,
                                  ![j].res = res]
        IN  /\ BadSoFar(fs, image_results, audio_results) <= MaxBad
            /\ futures' = fs
    /\ UNCHANGED <<max_workers, vpc, image_results, audio_results, progress,
                   missing_images, report, total_missing, v_exit>>
    /\ UNCHANGED transfer_vars
    /\ UNCHANGED other_vars

\* one pass of "for future in as_completed(future_to_reciter)"
CollectImage ==
    /\ vpc = "images"
    /\ \E j \in InState(futures, "done") :
        /\ image_results' = ImageRecord(image_results, futures[j].key.rid,
                                        futures[j].res)
        /\ futures' = Consume(futures, j)
    /\ progress' = [progress EXCEPT !.Images = @ + 1]
    /\ UNCHANGED <<max_workers, vpc, audio_results, missing_images, report,
                   total_missing, v_exit>>
    /\ UNCHANGED transfer_vars
    /\ UNCHANGED other_vars

\* the image loop is over: the image table and missing_images, then the
\* audio futures are submitted
ImageReport ==
    /\ vpc = "images"
    /\ InState(futures, "consumed") = 1..Len(futures)
    /\ missing_images' = CountMissingImages(image_results)
    /\ futures' = Submitted(AudioKeys(db.reciters))
    /\ vpc' = "audio"
    /\ UNCHANGED <<max_workers, image_results, audio_results, progress,
                   report, total_missing, v_exit>>
    /\ UNCHANGED transfer_vars
    /\ UNCHANGED other_vars

\* one pass of "for future in as_completed(future_to_surah)"
CollectAudio ==
    /\ vpc = "audio"
    /\ \E j \in InState(futures, "done") :
        /\ audio_results' = AudioRecord(audio_results, futures[j].key.rid,
                                        futures[j].key.n, futures[j].res)
        /\ futures' = Consume(futures, j)
    /\ progress' = [progress EXCEPT !.Audio = @ + 1]
    /\ UNCHANGED <<max_workers, vpc, image_results, missing_images, report,
                   total_missing, v_exit>>
    /\ UNCHANGED transfer_vars
    /\ UNCHANGED other_vars

\* the audio loop is over: the audio table, the summary and the exit
AudioReport ==
    /\ vpc = "audio"
    /\ InState(futures, "consumed") = 1..Len(futures)
    /\ LET rows == AudioRows(db.reciters, audio_results)
           total == SumMissing(rows, Len(rows))
       IN  /\ report' = rows
           /\ total_missing' = total
           /\ v_exit' = VerifyExit(missing_images, total)
    /\ vpc' = "done"
    /\ UNCHANGED <<max_workers, futures, image_results, audio_results,
                   progress, missing_images>>
    /\ UNCHANGED transfer_vars
    /\ UNCHANGED other_vars

ScanNext ==
    \/ ReadCatalog
    \/ StartProbe
    \/ FinishProbe
    \/ CollectImage
    \/ ImageReport
    \/ CollectAudio
    \/ AudioReport

ScanSpec == ScanInit /\ [][ScanNext]_vars

\* every check_url call returns or raises within its timeout, the worker
\* threads and the as_completed loops keep running
FairScanSpec == ScanSpec /\ WF_vars(ScanNext)

\* ------------------------------------------------------ check_url alone

\* one call of check_url is about to be made
ProbeInit ==
    /\ TransferIdle
    /\ db \in [version : {<<1, 0, 0>>}, reciters : {<<[id |-> "a"]>>}]
    /\ max_workers = 1
    /\ vpc = "probe"
    /\ futures \in {Submitted(<<Key("a", n)>>) : n \in 0..ScanSurahs}
    /\ image_results = <<>>
    /\ audio_results = Empty
    /\ progress = [Images |-> 0, Audio |-> 0]
    /\ missing_images = 0
    /\ report = <<>>
    /\ total_missing = 0
    /\ v_exit = -1
    /\ RerunIdle
    /\ CatalogIdle

\* the call: requests.head answers, check_url returns or raises
ProbeCall ==
    /\ vpc = "probe"
    /\ futures[1].st = "queued"
    /\ \E resp \in AllResponses :
        futures' = [futures EXCEPT ![1].st = "done", ![1].resp = resp,
                                  ![1].res = check_url(resp)]
    /\ UNCHANGED <<max_workers, vpc, image_results, audio_results, progress,
                   missing_images, report, total_missing, v_exit>>
    /\ UNCHANGED transfer_vars
    /\ UNCHANGED other_vars

ProbeNext == ProbeCall

ProbeSpec == ProbeInit /\ [][ProbeNext]_vars

\* ------------------------------------------------------------ properties

AllTransient(s) == \A i \in 1..Len(s) : s[i] \in Transient

\* the command got past its setup checks and entered the try block
SetupPassed == calls.mkdtemp > 0

\* the command is over: the summary is due or the process has exited
RunEnded == pc \in {"summary", "exit"}

\* the items of the run, in the order of range(start, end + 1)
Items == [i \in 1..(end - start + 1) |-> start + i - 1]

\* C1: a 404 makes download_file return False on that very attempt: it is
\* the last attempt of the call, no delay is slept after it, and a 404 on
\* the first attempt ends the call after one attempt and no delay.
C1_NotFoundReturnsAtOnce ==
    \A i \in 1..Len(outcomes) :
        outcomes[i] = "not_found" =>
            /\ i = Len(outcomes)
            /\ pc # "download"
            /\ dl_ret = "false"
            /\ slept = RETRY_DELAY * (i - 1)

C1_Witness ==
    /\ pc = "returned"
    /\ outcomes = <<"not_found">>
    /\ dl_ret = "false"
    /\ slept = 0

\* C2: after k-1 transient failures (k <= MAX_RETRIES) download_file is
\* still trying, has slept k-1 delays and makes attempt k; when attempt k
\* then succeeds the call returns True after exactly k attempts and k-1
\* delays.
C2_SuccessAfterTransients ==
    /\ (attempt >= 1 /\ AllTransient(outcomes) /\ Len(outcomes) < MAX_RETRIES) =>
            /\ pc = "download"
            /\ dl_ret = "none"
            /\ attempt = Len(outcomes) + 1
            /\ slept = RETRY_DELAY * Len(outcomes)
    /\ \A k \in 1..Len(outcomes) :
        (AllTransient(Prefix(outcomes, k - 1)) /\ outcomes[k] = "ok") =>
            /\ k <= MAX_RETRIES
            /\ Len(outcomes) = k
            /\ pc # "download"
            /\ dl_ret = "true"
            /\ slept = RETRY_DELAY * (k - 1)

C2_Witness ==
    /\ pc = "returned"
    /\ Len(outcomes) = 3
    /\ outcomes[1] \in Transient /\ outcomes[2] \in Transient
    /\ outcomes[3] = "ok"
    /\ dl_ret = "true"
    /\ slept = 2 * RETRY_DELAY

\* the safety part of C3: at most MAX_RETRIES attempts, a delay only
\* between two attempts, False after MAX_RETRIES transient failures
C3_AttemptsBounded ==
    /\ Len(outcomes) <= MAX_RETRIES
    /\ slept <= RETRY_DELAY * (MAX_RETRIES - 1)
    /\ (Len(outcomes) >= 1 /\ pc # "download") =>
            slept = RETRY_DELAY * (Len(outcomes) - 1)
    /\ (AllTransient(outcomes) /\ Len(outcomes) = MAX_RETRIES) =>
            /\ pc # "download"
            /\ dl_ret = "false"

\* C3: a call of download_file makes at most MAX_RETRIES attempts; when
\* all of them fail with a transient fault it returns False after exactly
\* MAX_RETRIES attempts, having slept only between attempts; and a call
\* that is under way always comes to an end.
C3_BoundedAndTerminates ==
    /\ []C3_AttemptsBounded
    /\ (pc = "download") ~> (pc # "download")

C3_Witness ==
    /\ pc = "returned"
    /\ Len(outcomes) = MAX_RETRIES
    /\ AllTransient(outcomes)
    /\ dl_ret = "false"
    /\ slept = RETRY_DELAY * (MAX_RETRIES - 1)

\* C4: in a live run no staging file of an item whose outcome is determined
\* exists when the loop goes on to the next item or ends.
C4_NoStagingFileSurvivesItem ==
    (~dry_run /\ pc = "loop") =>
        \A i \in 1..Len(attempted) : local_file(attempted[i]) \notin DOMAIN files

\* C5: once the staging directory was created, the run does not end
\* without rmtree having been called on it exactly once, whether the loop
\* completed or an exception left it; the directory is then gone unless
\* the removal itself met an error, and that error raises nothing.
C5_TempDirRemovedAtEnd ==
    /\ (SetupPassed /\ RunEnded) =>
            /\ calls.rmtree = 1
            /\ temp_dir \in {"removed", "leftover"}
    /\ temp_dir = "removed" => files = Empty
    /\ (pc = "summary") => ~raised
    /\ calls.mkdtemp <= 1

C5_Witness ==
    /\ pc = "exit"
    /\ raised
    /\ temp_dir = "removed"
    /\ calls.rmtree = 1

\* C6: download_file returns True only with the complete body of the
\* successful attempt in the staged file, and upload_to_r2 is only ever
\* invoked with such a file, also when earlier attempts stopped mid-body.
C6_OnlyCompleteBodyForwarded ==
    /\ (pc = "returned" /\ dl_ret = "true") =>
            /\ outcomes[Len(outcomes)] = "ok"
            /\ local_file(surah_num) \in DOMAIN files
            /\ files[local_file(surah_num)] = Body(surah_num, Len(outcomes))
    /\ \A i \in 1..Len(forwarded) :
            forwarded[i].body = Body(forwarded[i].n, forwarded[i].att)

C6_Witness ==
    /\ pc = "loop"
    /\ Len(forwarded) >= 1
    /\ forwarded[Len(forwarded)].n = surah_num
    /\ forwarded[Len(forwarded)].att = 2
    /\ forwarded[Len(forwarded)].prior = <<"body_error", "ok">>
    /\ forwarded[Len(forwarded)].body = Body(surah_num, 2)

\* C7: a dry run makes no fetch, no forward and no wrangler check, and
\* when it has gone through its range it has counted end - start + 1
\* successes and no failure.
C7_DryRunCountsAll ==
    dry_run =>
        /\ calls.fetch = 0 /\ calls.forward = 0 /\ calls.tool_check = 0
        /\ fail_count = 0
        /\ (SetupPassed /\ RunEnded) => success_count = end - start + 1

C7_Witness ==
    /\ dry_run
    /\ pc = "exit"
    /\ exit_code = 0
    /\ end - start + 1 = 2
    /\ success_count = 2

\* C8: a dry run creates no staging directory and no staging file and
\* changes neither the store nor the catalog.
C8_DryRunNoSideEffects ==
    dry_run =>
        /\ temp_dir = "none"
        /\ calls.mkdtemp = 0
        /\ files = Empty
        /\ store = Empty
        /\ calls.catalog_write = 0

\* C9: in a live run every item is counted exactly once, as a success or
\* as a failure: the two counters add up to the number of items entered
\* whenever the loop is at its head, to end - start + 1 when the run has
\* ended, and skipped_count stays 0.
C9_EveryItemClassifiedOnce ==
    (~dry_run /\ SetupPassed) =>
        /\ skipped_count = 0
        /\ success_count + fail_count = Len(classified)
        /\ success_count = Cardinality({i \in 1..Len(classified) :
                                            classified[i][2] = "success"})
        /\ \A i \in 1..Len(classified) : classified[i][1] = attempted[i]
        /\ pc = "loop" => success_count + fail_count = Len(attempted)
        /\ RunEnded => success_count + fail_count = end - start + 1

\* C10: in a run that passed setup every surah number of [start, end] is
\* attempted exactly once, whatever happened to the items before it.
C10_EveryItemAttempted ==
    (SetupPassed /\ RunEnded) => attempted = Items

\* C11: a run whose surah range violates 1 <= start <= end <= 114 exits
\* non-zero before any I/O: it reads no catalog, shows no prompt, checks
\* for no tool, creates no staging directory, fetches and forwards nothing.
C11_BadRangeRejectedBeforeIO ==
    ~ValidRange(start, end) =>
        /\ calls.catalog_read = 0
        /\ calls.prompt = 0
        /\ calls.tool_check = 0
        /\ calls.mkdtemp = 0
        /\ calls.fetch = 0
        /\ calls.forward = 0
        /\ pc = "exit" => exit_code = 1

\* C13: a run that passed setup exits non-zero exactly when fail_count is
\* greater than 0 at its end.
C13_ExitCodeIffFailures ==
    (SetupPassed /\ pc = "exit") => (exit_code # 0 <=> fail_count > 0)

\* --------------------------------------------- upload_audio run twice

\* what the audio server answers for a surah, and what the upload of that
\* surah meets (looked at only when the fetch succeeds)
PlanEntries ==
    {e \in [fetch : AttemptKinds, upload : UploadKinds] :
        e.fetch # "ok" => e.upload = "rc_zero"}

\* the answers both invocations meet: the first `flaky` attempts of every
\* download meet a network error, later ones the surah's own answer
Plans(s, e) == [flaky : 0..(MAX_RETRIES - 1), items : [s..e -> PlanEntries]]
Answer(n, att) ==
    IF att <= plan.flaky THEN "net_error" ELSE plan.items[n].fetch

\* the attempt of this step meets the planned answer
AttemptAsPlanned ==
    Last(outcomes') = Answer(surah_num, Len(outcomes'))

\* the upload of this step ends as upload_to_r2 ends on the planned answer
ForwardAsPlanned ==
    LET r == upload_to_r2(wrangler, plan.items[surah_num].upload) IN
    IF r = "raise" THEN raised'
    ELSE /\ ~raised'
         /\ Last(classified') =
               <<surah_num, IF r = "true" THEN "success" ELSE "upload_failed">>

RerunInit ==
    /\ reciter_id = "a"
    /\ start = 1
    /\ end \in 0..MaxItems
    /\ dry_run \in BOOLEAN
    /\ db = [version |-> <<1, 0, 0>>, reciters |-> <<[id |-> "a"]>>]
    /\ wrangler \in BOOLEAN
    /\ confirm_ans = FALSE
    /\ pc = "reciter"
    /\ raised = FALSE
    /\ exit_code = -1
    /\ temp_dir = "none"
    /\ next_surah = 0
    /\ surah_num = 0
    /\ success_count = 0 /\ fail_count = 0 /\ skipped_count = 0
    /\ attempt = 0 /\ dl_ret = "none" /\ outcomes = <<>> /\ slept = 0
    /\ files = Empty
    /\ store = Empty
    /\ calls = [catalog_read |-> 0, prompt |-> 0, tool_check |-> 0,
                fetch |-> 0, forward |-> 0, mkdtemp |-> 0, rmtree |-> 0,
                catalog_write |-> 0]
    /\ attempted = <<>>
    /\ classified = <<>>
    /\ forwarded = <<>>
    /\ run = 1
    /\ first = <<>>
    \* a run that fetches nothing meets no answer
    /\ plan \in (IF dry_run \/ ~wrangler
                 THEN {[flaky |-> 0,
                        items |-> [n \in start..end |->
                                     [fetch |-> "ok", upload |-> "rc_zero"]]]}
                 ELSE Plans(start, end))
    /\ ScanIdle
    /\ CatalogIdle

PlannedAttempt == Attempt /\ AttemptAsPlanned
PlannedForward == Forward /\ ForwardAsPlanned

\* the first process has exited; the command is invoked again with the
\* same arguments: a new process, new locals, a new mkdtemp directory;
\* the bucket is as the first invocation left it
Restart ==
    /\ pc = "exit"
    /\ run = 1
    /\ run' = 2
    /\ first' = <<[store |-> store,
                   counts |-> <<success_count, fail_count, skipped_count>>,
                   exit_code |-> exit_code,
                   classified |-> classified,
                   temp_dir |-> temp_dir,
                   files |-> files]>>
    /\ pc' = "reciter"
    /\ raised' = FALSE
    /\ exit_code' = -1
    /\ temp_dir' = "none"
    /\ next_surah' = 0
    /\ surah_num' = 0
    /\ success_count' = 0 /\ fail_count' = 0 /\ skipped_count' = 0
    /\ attempt' = 0 /\ dl_ret' = "none" /\ outcomes' = <<>> /\ slept' = 0
    /\ files' = Empty
    /\ calls' = [catalog_read |-> 0, prompt |-> 0, tool_check |-> 0,
                 fetch |-> 0, forward |-> 0, mkdtemp |-> 0, rmtree |-> 0,
                 catalog_write |-> 0]
    /\ attempted' = <<>>
    /\ classified' = <<>>
    /\ forwarded' = <<>>
    /\ UNCHANGED <<args, store, plan>>
    /\ UNCHANGED scan_vars
    /\ UNCHANGED catalog_vars

RerunNext ==
    \/ CheckReciter
    \/ ValidateRange
    \/ CheckWrangler
    \/ CreateTempDir
    \/ LoopExit
    \/ DryRunItem
    \/ StartItem
    \/ PlannedAttempt
    \/ DownloadFailed
    \/ PlannedForward
    \/ Finally
    \/ Summary
    \/ Restart

RerunSpec == RerunInit /\ [][RerunNext]_vars

\* --------------------------------------------- properties of the verify scan

AllConsumed == InState(futures, "consumed") = 1..Len(futures)
ScanEnded == vpc = "done" /\ db.reciters # <<>>
RowsOf(rid) == {i \in 1..Len(image_results) : image_results[i][1] = rid}
Absent(res) == res.kind = "raise" \/ ~res.exists
Occurrences(seq, x) == Cardinality({i \in 1..Len(seq) : seq[i] = x})
Ascending(seq) == \A i \in 1..Len(seq) : \A k \in 1..Len(seq) :
                        i < k => seq[i] < seq[k]

\* some probed image or audio file was not found present
AnyMissing ==
    \/ \E i \in 1..Len(image_results) : ~image_results[i][2]
    \/ \E rid \in DOMAIN audio_results : audio_results[rid].missing # <<>>

\* C12: verify ends with a non-zero exit whenever at least one expected
\* resource, a reciter image or an audio file, is missing on the CDN, and
\* with a zero exit only when every image and every audio file is present
C12_NonZeroExitIffMissing ==
    vpc = "done" => (v_exit # 0 <=> AnyMissing)

\* C14: for any completion order the aggregated scan result covers every
\* submitted key exactly once: after the image scan there is exactly one
\* result per reciter, and after the audio scan each reciter has
\* present_count + number of missing surahs = the number of surahs probed
C14_EveryKeyCoveredOnce ==
    /\ (vpc = "audio" \/ ScanEnded) =>
            /\ Len(image_results) = Len(db.reciters)
            /\ \A i \in 1..Len(db.reciters) :
                    Cardinality(RowsOf(db.reciters[i].id)) = 1
    /\ ScanEnded =>
            \A i \in 1..Len(db.reciters) :
                LET rid == db.reciters[i].id IN
                /\ rid \in DOMAIN audio_results
                /\ audio_results[rid].present
                        + Len(audio_results[rid].missing) = ScanSurahs
C14_Witness ==
    /\ ScanEnded
    /\ Len(db.reciters) = 2
    /\ image_results[1][1] = db.reciters[2].id
    /\ \E rid \in DOMAIN audio_results :
            /\ audio_results[rid].present > 0
            /\ audio_results[rid].missing # <<>>

\* the aggregate of the same probe outcomes taken in submission order
RECURSIVE FoldImages(_, _)
FoldImages(fs, k) ==
    IF k = 0 THEN <<>>
    ELSE ImageRecord(FoldImages(fs, k - 1), fs[k].key.rid, fs[k].res)
RECURSIVE FoldAudio(_, _)
FoldAudio(fs, k) ==
    IF k = 0 THEN Empty
    ELSE AudioRecord(FoldAudio(fs, k - 1), fs[k].key.rid, fs[k].key.n,
                     fs[k].res)

\* C15: aggregation is commutative over completion order: for fixed probe
\* outcomes the final image results and the final per-reciter present
\* count and missing-surah list are those of any other interleaving, so
\* those of the interleaving that completes the probes as submitted
C15_ResultIndependentOfOrder ==
    /\ (vpc = "images" /\ AllConsumed) =>
            image_results = FoldImages(futures, Len(futures))
    /\ ScanEnded => audio_results = FoldAudio(futures, Len(futures))

\* C16: in the final audio report every reciter's missing-surah list is
\* ascending and holds no surah number twice, whatever the completion order
C16_MissingAscendingNoDup ==
    vpc = "done" =>
        \A i \in 1..Len(report) : Ascending(report[i].missing)

\* C17: a probe that throws is recorded as absent, with no status code,
\* for its own key only: the scan goes on, every key consumed so far has
\* exactly its own result, and the keys that did not throw have the result
\* their own probe returned
C17_FaultRecordedForOwnKeyOnly ==
    /\ vpc = "images" =>
            /\ Len(image_results) = Cardinality(InState(futures, "consumed"))
            /\ \A j \in InState(futures, "consumed") :
                    LET rid == futures[j].key.rid
                        res == futures[j].res
                    IN  \E i \in 1..Len(image_results) :
                            /\ RowsOf(rid) = {i}
                            /\ image_results[i] =
                                  IF res.kind = "raise"
                                  THEN <<rid, FALSE, None>>
                                  ELSE <<rid, res.exists, res.status_code>>
    /\ (vpc = "audio" \/ ScanEnded) =>
            /\ \A j \in InState(futures, "consumed") :
                    LET key == futures[j].key IN
                    /\ key.rid \in DOMAIN audio_results
                    /\ Occurrences(audio_results[key.rid].missing, key.n)
                          = IF Absent(futures[j].res) THEN 1 ELSE 0
            /\ \A rid \in DOMAIN audio_results :
                    /\ audio_results[rid].present =
                          Cardinality({j \in InState(futures, "consumed") :
                                          /\ futures[j].key.rid = rid
                                          /\ ~Absent(futures[j].res)})
                    /\ Len(audio_results[rid].missing) =
                          Cardinality({j \in InState(futures, "consumed") :
                                          /\ futures[j].key.rid = rid
                                          /\ Absent(futures[j].res)})
    /\ ScanEnded => AllConsumed
C17_Witness ==
    /\ ScanEnded
    /\ \E j \in 1..Len(futures) : \E k \in 1..Len(futures) :
            /\ futures[j].res.kind = "raise"
            /\ futures[k].res = Returned(TRUE, Some(200))
            /\ futures[j].key.rid = futures[k].key.rid
            /\ audio_results[futures[j].key.rid].missing = <<futures[j].key.n>>
            /\ audio_results[futures[j].key.rid].present = ScanSurahs - 1

\* C18: during a scan at most max_workers probes are in flight at any
\* moment, although every key of the scan is submitted before the first
\* completion is consumed
C18_InFlightBounded ==
    /\ Cardinality(InState(futures, "running")) <= max_workers
    /\ (vpc = "images" /\ InState(futures, "consumed") # {}) =>
            [j \in 1..Len(futures) |-> futures[j].key] = ImageKeys(db.reciters)
    /\ (vpc = "audio" /\ InState(futures, "consumed") # {}) =>
            [j \in 1..Len(futures) |-> futures[j].key] = AudioKeys(db.reciters)
C18_Witness ==
    /\ vpc = "audio"
    /\ max_workers > 1
    /\ Cardinality(InState(futures, "running")) = max_workers
    /\ InState(futures, "queued") # {}
    /\ InState(futures, "consumed") # {}

Range(seq) == {seq[i] : i \in 1..Len(seq)}
ProbesOf(rid) == {j \in 1..Len(futures) : futures[j].key.rid = rid}

\* C21: in the final audio report every reciter's present_count is the
\* number of its probed surahs whose probe returned present, and its
\* missing list holds exactly the probed surah numbers not found present
\* (absent or faulted); a reciter without any recorded result is reported
\* with present_count 0 and every surah missing
C21_ReportMatchesProbes ==
    /\ ScanEnded =>
            /\ Len(report) = Len(db.reciters)
            /\ \A i \in 1..Len(report) :
                    LET rid == db.reciters[i].id IN
                    /\ report[i].id = rid
                    /\ report[i].present =
                          Cardinality({j \in ProbesOf(rid) :
                                          ~Absent(futures[j].res)})
                    /\ Range(report[i].missing) =
                          {futures[j].key.n : j \in
                              {k \in ProbesOf(rid) : Absent(futures[k].res)}}
                    /\ Len(report[i].missing) =
                          Cardinality(Range(report[i].missing))
    /\ \A D \in SUBSET (DOMAIN audio_results) :
            LET rows == AudioRows(db.reciters, Restrict(audio_results, D))
            IN  \A i \in 1..Len(db.reciters) :
                    db.reciters[i].id \notin D =>
                        /\ rows[i].present = 0
                        /\ Range(rows[i].missing) = 1..ScanSurahs
                        /\ Len(rows[i].missing) = ScanSurahs
C21_Witness ==
    /\ ScanEnded
    /\ Len(db.reciters) = 2
    /\ \E i \in 1..2 : /\ report[i].present = 1
                        /\ report[i].missing = <<ScanSurahs>>
    /\ \E i \in 1..2 : /\ report[i].present = ScanSurahs
                        /\ report[i].missing = <<>>

\* C22: in the image report a reciter is counted missing if and only if
\* its single image probe returned absent (a non-200 status or a network
\* error) or raised; missing_images is the number of such reciters
C22_MissingImagesCounted ==
    /\ (vpc = "images" /\ AllConsumed) =>
            \A j \in 1..Len(futures) :
                \E i \in RowsOf(futures[j].key.rid) :
                    image_results[i][2] <=> ~Absent(futures[j].res)
    /\ (vpc = "audio" \/ ScanEnded) =>
            missing_images =
                Cardinality({i \in 1..Len(db.reciters) :
                    \E k \in RowsOf(db.reciters[i].id) :
                        ~image_results[k][2]})
C22_Witness ==
    /\ vpc = "audio"
    /\ missing_images = 2
    /\ \E i \in 1..2 : image_results[i][3] = None
    /\ \E i \in 1..2 : image_results[i][3] = Some(404)

\* C28: a scan over N reciters issues N image probes and (surahs per
\* reciter) * N audio probes and, every probe returning or raising within
\* its timeout, eventually completes, the progress counters having advanced
\* once per probe, raised ones included
C28_Counts ==
    /\ vpc = "images" => Len(futures) = Len(db.reciters)
    /\ vpc = "audio" => Len(futures) = ScanSurahs * Len(db.reciters)
    /\ vpc = "images" =>
            progress.Images = Cardinality(InState(futures, "consumed"))
    /\ vpc = "audio" =>
            /\ progress.Images = Len(db.reciters)
            /\ progress.Audio = Cardinality(InState(futures, "consumed"))
    /\ ScanEnded =>
            /\ progress.Images = Len(db.reciters)
            /\ progress.Audio = ScanSurahs * Len(db.reciters)
C28_ScanCompletes == []C28_Counts /\ <>(vpc = "done")
C28_Witness ==
    /\ ScanEnded
    /\ Len(db.reciters) = 2
    /\ progress.Audio = ScanSurahs * 2
    /\ \E j \in 1..Len(futures) : futures[j].res.kind = "raise"

\* ------------------------------------------------- properties of check_url

\* C19: check_url never raises to its caller: whatever the request meets
\* (a status code, a network error, a timeout, any other fault) the caller
\* receives a result value
C19_NeverRaises ==
    \A j \in InState(futures, "done") :
        vpc = "probe" => futures[j].res.kind = "return"

\* C20: check_url returns present exactly when the status is 200; for any
\* other status absent with that status code; for a network-level error
\* absent with the status code None
C20_PresentIff200 ==
    \A j \in InState(futures, "done") :
        LET resp == futures[j].resp
            res == futures[j].res
        IN  vpc = "probe" =>
            /\ resp.kind = "status" =>
                    /\ res.kind = "return"
                    /\ res.exists <=> resp.code = 200
                    /\ res.status_code = <<resp.code>>
            /\ resp.kind = "request_exception" =>
                    /\ res.kind = "return"
                    /\ ~res.exists
                    /\ res.status_code = <<>>
C20_Witness ==
    /\ vpc = "probe"
    /\ \E j \in InState(futures, "done") :
            /\ futures[j].resp = [kind |-> "status", code |-> 204]
            /\ futures[j].res = Returned(FALSE, Some(204))

\* ------------------------------------------- more properties of upload_audio

\* one step of a live run, as C26 wants it
C26_Step ==
    ~dry_run =>
        /\ attempted' # attempted =>
                /\ pc = "loop"
                /\ attempted' = Append(attempted,
                                    IF attempted = <<>> THEN start
                                    ELSE Last(attempted) + 1)
                /\ Len(classified) = Len(attempted)
        /\ calls'.fetch > calls.fetch =>
                /\ attempted # <<>>
                /\ surah_num = Last(attempted)
                /\ Len(classified) = Len(attempted) - 1
        /\ calls'.forward > calls.forward =>
                /\ dl_ret = "true"
                /\ outcomes # <<>>
                /\ Last(outcomes) = "ok"
                /\ surah_num = Last(attempted)
                /\ forwarded'[1].n = surah_num
                /\ Len(classified) = Len(attempted) - 1

\* C26: a live run takes the surah numbers in ascending order, one at a
\* time: an item is started only when every earlier item has its outcome,
\* every fetch is for the item started last, and upload_to_r2 is invoked
\* only for that item and only after its fetch returned success
C26_AscendingOneAtATime == [][C26_Step]_vars
C26_Witness ==
    /\ ~dry_run
    /\ pc = "exit"
    /\ ~raised
    /\ classified = <<<<start, "download_failed">>, <<start + 1, "success">>>>
    /\ remote_path(reciter_id, start + 1) \in DOMAIN store

\* C27: in live mode a missing upload tool ends the run with a non-zero
\* exit before a staging directory is created and before any fetch or
\* forward; in dry-run mode the tool is not looked for and its absence
\* does not end the run
C27_MissingToolAborts ==
    /\ (~dry_run /\ ~wrangler /\ pc \notin {"reciter", "range", "wrangler"}) =>
            /\ pc = "exit"
            /\ exit_code # 0
            /\ temp_dir = "none"
            /\ calls.mkdtemp = 0 /\ calls.fetch = 0 /\ calls.forward = 0
    /\ dry_run => calls.tool_check = 0
    /\ (dry_run /\ ~wrangler /\ pc = "exit" /\ ValidRange(start, end)
            /\ (get_reciter(db, reciter_id) # None \/ confirm_ans)) =>
            /\ SetupPassed
            /\ Len(attempted) = end - start + 1
C27_Witness ==
    /\ ~dry_run
    /\ ~wrangler
    /\ pc = "exit"
    /\ exit_code = 1
    /\ calls.tool_check = 1
    /\ calls.mkdtemp = 0

\* ------------------------------------------------- the catalog document

\* largest number of add_reciter calls in a row that is explored
MaxAdds == 3

\* a string is the sequence of its characters
Digits == <<"0", "1", "2", "3", "4", "5", "6", "7", "8", "9">>
DigitVal(c) == (CHOOSE i \in 1..10 : Digits[i] = c) - 1
IsDecimal(part) ==
    /\ part # <<>>
    /\ \A i \in 1..Len(part) : \E d \in 1..10 : Digits[d] = part[i]

\* version.split(".")
RECURSIVE split(_, _)
split(str_, sep) ==
    IF \A i \in 1..Len(str_) : str_[i] # sep THEN <<str_>>
    ELSE LET i == CHOOSE k \in 1..Len(str_) :
                    /\ str_[k] = sep
                    /\ \A m \in 1..(k - 1) : str_[m] # sep
         IN  <<SubSeq(str_, 1, i - 1)>>
                \o split(SubSeq(str_, i + 1, Len(str_)), sep)

\* ".".join(parts)
RECURSIVE join(_, _)
join(parts, sep) ==
    IF parts = <<>> THEN <<>>
    ELSE IF Len(parts) = 1 THEN parts[1]
    ELSE parts[1] \o <<sep>> \o join(Tail(parts), sep)

\* int(part) for a string of decimal digits
RECURSIVE int(_)
int(part) ==
    IF Len(part) = 1 THEN DigitVal(part[1])
    ELSE 10 * int(SubSeq(part, 1, Len(part) - 1)) + DigitVal(part[Len(part)])

\* str(n) for n >= 0
RECURSIVE str(_)
str(n) ==
    IF n < 10 THEN <<Digits[n + 1]>>
    ELSE str(n \div 10) \o <<Digits[(n % 10) + 1]>>

\* increment_version adding 1 to the first component
increment_version_FirstPart(version) ==
    LET parts == split(version, ".")
    IN  join([parts EXCEPT ![1] = str(int(parts[1]) + 1)], ".")

\* increment_version: parts[-1] = str(int(parts[-1]) + 1)
increment_version(version) ==
    LET parts == split(version, ".")
    IN  join([parts EXCEPT ![Len(parts)] = str(int(parts[Len(parts)]) + 1)],
             ".")

\* the duplicate test comparing whole entries instead of ids
id_exists_SameEntry(data, reciter) ==
    \E i \in 1..Len(data.reciters) : data.reciters[i] = reciter

\* the duplicate test looking at the first entry only
id_exists_FirstOnly(data, reciter) ==
    data.reciters # <<>> /\ data.reciters[1].id = reciter.id

\* "for existing in data['reciters']: if existing['id'] == reciter['id']"
id_exists(data, reciter) ==
    \E i \in 1..Len(data.reciters) : data.reciters[i].id = reciter.id

\* the documents add_reciter is called on: versions of dotted decimal
\* numbers, reciter ids pairwise distinct
Versions == {<<"1", ".", "0", ".", "0">>, <<"1", ".", "0", ".", "9">>,
             <<"2", ".", "1", "9">>, <<"0", ".", "0", ".", "9", "8">>}
Reciter(id, name) == [id |-> id, name_en |-> name]
Documents ==
    [version : Versions,
     settings : {[cdn_base_url |-> "cdn"]},
     reciters : {<<>>, <<Reciter("a", "x")>>,
                 <<Reciter("a", "x"), Reciter("b", "y")>>}]
\* the reciters add_reciter is called with
NewReciters == {Reciter(i, n) : i \in {"a", "b", "c"}, n \in {"x", "y"}}

CatalogInit ==
    /\ TransferIdle
    /\ ScanIdle
    /\ RerunIdle
    /\ db \in Documents
    /\ db0 = db
    /\ adds = 0
    /\ last_add = <<>>

\* one call of add_reciter(reciter): read_db_json, the duplicate test,
\* append, increment_version, write_db_json
AddReciter ==
    /\ calls.catalog_read < MaxAdds
    /\ \E reciter \in NewReciters :
        LET data == db
            parts == split(data.version, ".")
            call(ret) == [reciter |-> reciter, before |-> db,
                          writes |-> calls.catalog_write, ret |-> ret]
        IN  IF id_exists(data, reciter) \/ ~IsDecimal(Last(parts))
            THEN \* ValueError, raised by the duplicate test or by int():
                 \* write_db_json is not reached
                 /\ last_add' = <<call("ValueError")>>
                 /\ calls' = [calls EXCEPT !.catalog_read = @ + 1]
                 /\ UNCHANGED <<db, adds>>
            ELSE /\ db' = [data EXCEPT
                              !.reciters = Append(@, reciter),
                              !.version = increment_version(@)]
                 /\ calls' = [calls EXCEPT !.catalog_read = @ + 1,
                                           !.catalog_write = @ + 1]
                 /\ adds' = adds + 1
                 /\ last_add' = <<call("None")>>
    /\ UNCHANGED <<reciter_id, start, end, dry_run, wrangler, confirm_ans,
                   pc, raised, exit_code, temp_dir, next_surah, surah_num,
                   counts, dl_vars, files, store, attempted, classified,
                   forwarded>>
    /\ UNCHANGED db0
    /\ UNCHANGED scan_vars
    /\ UNCHANGED rerun_vars

CatalogNext == AddReciter

CatalogSpec == CatalogInit /\ [][CatalogNext]_vars

\* ------------------------------------------------ properties of a re-run

RerunEnded == run = 2 /\ pc = "exit"
SameStoreAndSummary ==
    /\ store = first[1].store
    /\ <<success_count, fail_count, skipped_count>> = first[1].counts
    /\ exit_code = first[1].exit_code
    /\ classified = first[1].classified
NoStaging(dir, fs) == dir \in {"none", "removed"} /\ fs = Empty

\* C25 as stated: for fixed source and store answers, running the same
\* transfer twice in a row leaves the store as one run left it, gives the
\* same summary both times, and leaves no staging file or directory
C25_RerunIdempotent ==
    RerunEnded =>
        /\ SameStoreAndSummary
        /\ NoStaging(temp_dir, files)
        /\ NoStaging(first[1].temp_dir, first[1].files)

\* C25, amended: for fixed source and store answers, running the same
\* transfer twice in a row leaves the store as one run left it and gives
\* the same summary both times; each run leaves no staging file or
\* directory unless the removal of its directory itself met an error
C25_RerunIdempotentBestEffort ==
    RerunEnded =>
        /\ SameStoreAndSummary
        /\ temp_dir # "leftover" => NoStaging(temp_dir, files)
        /\ first[1].temp_dir # "leftover" =>
                NoStaging(first[1].temp_dir, first[1].files)
C25_Witness ==
    /\ RerunEnded
    /\ plan.flaky > 0
    /\ success_count > 0
    /\ fail_count > 0
    /\ store # Empty
    /\ temp_dir = "removed"
    /\ first[1].temp_dir = "removed"

\* ------------------------------------------------ properties of the catalog

\* a version read from the right: the digits after the last dot, their
\* value, and what stands before them
LastDot(v) ==
    IF \A i \in 1..Len(v) : v[i] # "." THEN 0
    ELSE CHOOSE i \in 1..Len(v) :
            v[i] = "." /\ \A k \in (i + 1)..Len(v) : v[k] # "."
Stem(v) == SubSeq(v, 1, LastDot(v))
PatchDigits(v) == SubSeq(v, LastDot(v) + 1, Len(v))
RECURSIVE Pow10(_)
Pow10(k) == IF k = 0 THEN 1 ELSE 10 * Pow10(k - 1)
RECURSIVE ValueFrom(_, _)
ValueFrom(ds, i) ==
    IF i > Len(ds) THEN 0
    ELSE DigitVal(ds[i]) * Pow10(Len(ds) - i) + ValueFrom(ds, i + 1)
Patch(v) == ValueFrom(PatchDigits(v), 1)
IdsOf(doc) == {doc.reciters[i].id : i \in 1..Len(doc.reciters)}
IsPrefix(a, b) == Len(a) <= Len(b) /\ SubSeq(b, 1, Len(a)) = a

\* C23: add_reciter with an id already in the catalog raises the
\* duplicate-id error and leaves the stored document as it was: same
\* reciter list, same version, no write
C23_DuplicateRejected ==
    last_add # <<>> =>
        LET l == last_add[1] IN
        l.reciter.id \in IdsOf(l.before) =>
            /\ l.ret = "ValueError"
            /\ db = l.before
            /\ calls.catalog_write = l.writes
C23_Witness ==
    /\ last_add # <<>>
    /\ last_add[1].ret = "ValueError"
    /\ adds > 0
    /\ \E i \in 1..Len(db.reciters) :
            /\ db.reciters[i].id = last_add[1].reciter.id
            /\ db.reciters[i] # last_add[1].reciter

\* C24: add_reciter with an id not in the catalog appends the reciter as
\* the last entry, keeps the existing entries and the settings, and adds
\* exactly 1 to the last component of the version, the others unchanged;
\* reciters [a], version 1.0.0, add b gives 2 reciters and version 1.0.1
C24_AddAppendsAndBumpsPatch ==
    last_add # <<>> =>
        LET l == last_add[1] IN
        l.reciter.id \notin IdsOf(l.before) =>
            /\ l.ret = "None"
            /\ db.reciters = Append(l.before.reciters, l.reciter)
            /\ db.settings = l.before.settings
            /\ Stem(db.version) = Stem(l.before.version)
            /\ Patch(db.version) = Patch(l.before.version) + 1
            /\ calls.catalog_write = l.writes + 1
            /\ l.before.version = <<"1", ".", "0", ".", "0">> =>
                    db.version = <<"1", ".", "0", ".", "1">>
C24_Witness ==
    /\ last_add # <<>>
    /\ last_add[1].ret = "None"
    /\ last_add[1].reciter.id = "b"
    /\ last_add[1].before.reciters = <<Reciter("a", "x")>>
    /\ last_add[1].before.version = <<"1", ".", "0", ".", "0">>
    /\ Len(db.reciters) = 2
    /\ db.version = <<"1", ".", "0", ".", "1">>

\* C29: from a catalog with pairwise distinct ids, after any sequence of
\* add_reciter calls, accepted or rejected, the ids are still pairwise
\* distinct, no earlier reciter was removed or altered, and the patch
\* component of the version is its first value plus the number of
\* accepted calls
C29_CatalogInvariant ==
    db0 # <<>> =>
        /\ Cardinality(IdsOf(db)) = Len(db.reciters)
        /\ IsPrefix(db0.reciters, db.reciters)
        /\ last_add # <<>> => IsPrefix(last_add[1].before.reciters, db.reciters)
        /\ Len(db.reciters) = Len(db0.reciters) + adds
        /\ Patch(db.version) = Patch(db0.version) + adds
        /\ Stem(db.version) = Stem(db0.version)
C29_Witness ==
    /\ db0 # <<>>
    /\ adds = 2
    /\ calls.catalog_read = 3
    /\ Patch(db0.version) = 9
    /\ Patch(db.version) = 11

====
